---- MODULE Spec2Model ----
(***************************************************************************)
(* Model of validate.py, the users.toml validator for FabAccess (BFFH).    *)
(*                                                                         *)
(* The program is one sequential run of main(): resolve the database path, *)
(* stat the file, parse it, visit every user record (unknown keys, roles,  *)
(* passwd, cardkey, credential check), then print the report.  Each block  *)
(* of main() is one action; pc is the position of the run.                 *)
(*                                                                         *)
(* TOML values are records [type, val]: val is the sequence of characters  *)
(* of a string, the sequence of items of an array, or the digits of an     *)
(* integer.  A key that is not in the table has type "absent"; a Python    *)
(* local that was never assigned has type "unbound".                       *)
(* A printed line is a record [kind, user, nums]: which print statement    *)
(* produced it, the user it names (0 if none) and the numbers it formats.  *)
(***************************************************************************)
EXTENDS Naturals, Sequences, FiniteSets

\* ---------------------------------------------------------------- bounds
MaxUsers == 2
MaxRoles == 3
MaxUnknownKeys == 1

\* ---------------------------------------------------------------- values
Absent == [type |-> "absent", val |-> <<>>]
Unbound == [type |-> "unbound", val |-> <<>>]
Str(s) == [type |-> "str", val |-> s]
List(s) == [type |-> "list", val |-> s]
IntVal == [type |-> "int", val |-> <<"5">>]

NoArg == "None"
CustomPath == "/tmp/users.toml"
default_usertoml == "/etc/bffh/users.toml"
UnboundPath == "<unbound>"

Argon2Prefix == <<"$", "a", "r", "g", "o", "n", "2">>
HashedPasswd == Str(Argon2Prefix \o <<"i", "d", "$", "x">>)
PlainPasswd == Str(<<"s", "e", "c", "r", "e", "t">>)

HexDigits ==
    {"0", "1", "2", "3", "4", "5", "6", "7", "8", "9",
     "a", "b", "c", "d", "e", "f", "A", "B", "C", "D", "E", "F"}

\* a1a2a3a4-b1b2-c1c2-d1d2-d3d4d5d6d7d8 and its urn and braced forms
HyphenatedUuid ==
    <<"a", "1", "a", "2", "a", "3", "a", "4", "-", "b", "1", "b", "2", "-",
      "c", "1", "c", "2", "-", "d", "1", "d", "2", "-",
      "d", "3", "d", "4", "d", "5", "d", "6", "d", "7", "d", "8">>
UrnUuid == <<"u", "r", "n", ":", "u", "u", "i", "d", ":">> \o HyphenatedUuid
BracedUuid == <<"{">> \o HyphenatedUuid \o <<"}">>
NotAUuid == <<"n", "o", "t", "-", "a", "-", "u", "u", "i", "d">>

\* ---------------------------------------------------------------- strings
StartsWith(s, p) == Len(s) >= Len(p) /\ SubSeq(s, 1, Len(p)) = p

\* str.replace(pat, ''): the occurrences of pat are removed, left to right
RECURSIVE RemoveAll(_, _)
RemoveAll(s, pat) ==
    IF Len(s) < Len(pat) THEN s
    ELSE IF SubSeq(s, 1, Len(pat)) = pat
         THEN RemoveAll(SubSeq(s, Len(pat) + 1, Len(s)), pat)
         ELSE <<Head(s)>> \o RemoveAll(Tail(s), pat)

\* str.strip(chars): leading and trailing characters of the set are removed
RECURSIVE LStrip(_, _)
LStrip(s, chars) ==
    IF s # <<>> /\ Head(s) \in chars THEN LStrip(Tail(s), chars) ELSE s

RECURSIVE RStrip(_, _)
RStrip(s, chars) ==
    IF s # <<>> /\ s[Len(s)] \in chars
    THEN RStrip(SubSeq(s, 1, Len(s) - 1), chars)
    ELSE s

Strip(s, chars) == RStrip(LStrip(s, chars), chars)

\* uuid.UUID(hex, version=4) on a str: the urn and uuid prefixes, the braces
\* and the hyphens are removed; what is left must be 32 characters that
\* int(hex, 16) accepts.  Over the characters used here (letters, digits,
\* '-', ':', '{', '}', '$') int(hex, 16) accepts exactly the hex digits.
\* version=4 overwrites the version bits, it does not test them.
UuidHex(s) ==
    RemoveAll(Strip(RemoveAll(RemoveAll(s, <<"u", "r", "n", ":">>),
                              <<"u", "u", "i", "d", ":">>),
                    {"{", "}"}),
              <<"-">>)

UuidParses(s) ==
    /\ Len(UuidHex(s)) = 32
    /\ \A i \in 1..Len(UuidHex(s)) : UuidHex(s)[i] \in HexDigits

\* is_valid_uuid(val) for a str val (ValueError is caught, nothing else is)
is_valid_uuid(v) == UuidParses(v.val)

\* what uuid.UUID raises that is_valid_uuid does not catch:
\* a value that is not a str has no .replace
UuidRaises(v) == v.type # "str"

\* ---------------------------------------------------------------- output
Msg(kind, u, nums) == [kind |-> kind, user |-> u, nums |-> nums]

Opt(cond, m) == IF cond THEN <<m>> ELSE <<>>

RECURSIVE Repeat(_, _)
Repeat(m, n) == IF n = 0 THEN <<>> ELSE <<m>> \o Repeat(m, n - 1)

WarningKinds ==
    {"UnknownField", "RolesNotArray", "DuplicateRole", "PasswordNotString",
     "PasswordUnencrypted", "PasswordDuplicate", "CardkeyNotString",
     "CardkeyInvalid", "CardkeyDuplicate"}

\* ---------------------------------------------------------------- inputs
RoleNames == {"a", "b"}
RoleLists == UNION {[1..n -> RoleNames] : n \in 0..MaxRoles}
RolesValues ==
    {Absent, IntVal, Str(<<"a", "b", "a">>)} \cup {List(l) : l \in RoleLists}
PasswdValues == {Absent, HashedPasswd, PlainPasswd, IntVal}
CardkeyValues == {Absent, Str(UrnUuid), Str(BracedUuid), Str(NotAUuid), IntVal}

\* A user record: its roles, passwd and cardkey values and the number of its
\* keys that are not in knownKeys.
\* records that differ in their roles, without credentials
RoleRecords ==
    [unknown : {0}, roles : RolesValues, passwd : {Absent}, cardkey : {Absent}]
\* records that differ in their credentials
CredRecords ==
    [unknown : {0}, roles : {List(<<"a">>)},
     passwd : PasswdValues, cardkey : CardkeyValues]
\* records that differ in their unknown keys
KeyRecords ==
    [unknown : 0..MaxUnknownKeys, roles : {Absent, List(<<"a">>)},
     passwd : {Absent, HashedPasswd}, cardkey : {Absent}]

Tables(U) == UNION {[1..n -> U] : n \in 0..MaxUsers}

\* the number of role items in a database
RECURSIVE TotalRoles(_)
TotalRoles(d) ==
    IF d = <<>> THEN 0 ELSE Len(Head(d).roles.val) + TotalRoles(Tail(d))

\* the databases of at most MaxUsers users: those whose users differ in at
\* most MaxRoles role items, in their credentials, or in their unknown keys
Databases ==
    {d \in Tables(RoleRecords) : TotalRoles(d) <= MaxRoles}
    \cup Tables(CredRecords)
    \cup Tables(KeyRecords)

\* the message of the exception tomllib.load raised: the fragments main()
\* looks for that it contains
Fragments ==
    {"Cannot declare", "twice", "Invalid value", "Expected '=' after a key"}

Files ==
    {[kind |-> "zero", msg |-> {}, users |-> <<>>]}
    \cup {[kind |-> "bad", msg |-> m, users |-> <<>>] : m \in SUBSET Fragments}
    \cup {[kind |-> "toml", msg |-> {}, users |-> d] : d \in Databases}

NoFile == [kind |-> "missing", msg |-> {}, users |-> <<>>]

\* ---------------------------------------------------------------- state
VARIABLES
    argDb, defaultExists, file,
    pc, usertoml, data, user, passwd,
    countUsers, countUsersWithoutCardkeyOrPassword, uniqueRoles,
    countUserWithoutRoles, countUserWithDuplicateRoles,
    countPassword, countPasswordUnencrypted, countPasswordEncrypted,
    countPasswordDuplicates,
    countCardkey, countCardkeyInvalid, countCardkeyDuplicates,
    countUnknownKeys, countWarnings,
    passwds, cardkeys,
    out, exc, exitStatus

env == <<argDb, defaultExists, file>>
roleVars == <<uniqueRoles, countUserWithoutRoles, countUserWithDuplicateRoles>>
passwdVars ==
    <<passwd, countPassword, countPasswordUnencrypted, countPasswordEncrypted,
      countPasswordDuplicates, passwds>>
cardkeyVars ==
    <<countCardkey, countCardkeyInvalid, countCardkeyDuplicates, cardkeys>>
counters ==
    <<countUsers, countUsersWithoutCardkeyOrPassword, roleVars, passwdVars,
      cardkeyVars, countUnknownKeys, countWarnings>>
vars == <<env, pc, usertoml, data, user, counters, out, exc, exitStatus>>

Init ==
    /\ argDb \in {NoArg, CustomPath}
    /\ defaultExists \in BOOLEAN
    /\ IF argDb = NoArg /\ ~defaultExists THEN file = NoFile ELSE file \in Files
    /\ pc = "start"
    /\ usertoml = UnboundPath
    /\ data = <<>>
    /\ user = 0
    /\ passwd = Unbound
    /\ countUsers = 0
    /\ countUsersWithoutCardkeyOrPassword = 0
    /\ uniqueRoles = <<>>
    /\ countUserWithoutRoles = 0
    /\ countUserWithDuplicateRoles = 0
    /\ countPassword = 0
    /\ countPasswordUnencrypted = 0
    /\ countPasswordEncrypted = 0
    /\ countPasswordDuplicates = 0
    /\ countCardkey = 0
    /\ countCardkeyInvalid = 0
    /\ countCardkeyDuplicates = 0
    /\ countUnknownKeys = 0
    /\ countWarnings = 0
    /\ passwds = <<>>
    /\ cardkeys = <<>>
    /\ out = <<>>
    /\ exc = ""
    /\ exitStatus = <<>>

\* sys.exit(1) after the printed lines
Exit1(lines) ==
    /\ out' = out \o lines
    /\ pc' = "exited"
    /\ exitStatus' = <<1>>
    /\ exc' = exc

\* an exception nothing catches: traceback on stderr, exit status 1
Crash(lines, e) ==
    /\ out' = out \o lines
    /\ pc' = "crashed"
    /\ exitStatus' = <<1>>
    /\ exc' = e

Goto(lines, p) ==
    /\ out' = out \o lines
    /\ pc' = p
    /\ UNCHANGED <<exc, exitStatus>>

Member(x, s) == \E i \in 1..Len(s) : s[i] = x

\* += 1 under a condition
Inc(cond) == IF cond THEN 1 ELSE 0

\* ---------------------------------------------------------------- main()
\* lines 36-49: argument parsing and the default path
ResolvePath ==
    /\ pc = "start"
    /\ IF argDb # NoArg
       THEN /\ usertoml' = usertoml
            /\ Goto(<<>>, "stat")
       ELSE IF defaultExists
            THEN /\ usertoml' = default_usertoml
                 /\ Goto(<<Msg("NoCustomDb", 0, <<>>),
                           Msg("FoundDefault", 0, <<>>)>>, "stat")
            ELSE /\ usertoml' = usertoml
                 /\ Exit1(<<Msg("NoCustomDb", 0, <<>>),
                            Msg("ErrNoFile", 0, <<>>)>>)
    /\ UNCHANGED <<env, data, user, counters>>

\* lines 70-79: header, os.stat(usertoml), the size check
StatFile ==
    /\ pc = "stat"
    /\ IF usertoml = UnboundPath
       THEN Crash(<<Msg("HeaderChecking", 0, <<>>)>>, "UnboundLocalError")
       ELSE IF file.kind = "zero"
            THEN Exit1(<<Msg("HeaderChecking", 0, <<>>),
                         Msg("DbSize", 0, <<0>>),
                         Msg("ErrZeroSize", 0, <<>>)>>)
            ELSE Goto(<<Msg("HeaderChecking", 0, <<>>),
                        Msg("DbSize", 0, <<1>>)>>, "parse")
    /\ UNCHANGED <<env, usertoml, data, user, counters>>

\* lines 85-92: the message printed for the parser's exception
ParseDiagnostic(m) ==
    IF "Cannot declare" \in m /\ "twice" \in m THEN "ErrDuplicateUser"
    ELSE IF "Invalid value" \in m THEN "ErrKeyWithoutValue"
    ELSE IF "Expected '=' after a key" \in m THEN "ErrBadMapping"
    ELSE "ErrVerbatim"

\* lines 81-98: tomllib.load, then the loop is entered
ParseFile ==
    /\ pc = "parse"
    /\ IF file.kind = "bad"
       THEN /\ Exit1(<<Msg(ParseDiagnostic(file.msg), 0, <<>>)>>)
            /\ UNCHANGED <<data, user>>
       ELSE /\ data' = file.users
            /\ IF file.users = <<>>
               THEN /\ user' = user
                    /\ Goto(<<>>, "report")
               ELSE /\ user' = 1
                    /\ Goto(<<>>, "keys")
    /\ UNCHANGED <<env, usertoml, counters>>

\* lines 99-105: the section marker and the keys that are not known
CheckKeys ==
    /\ pc = "keys"
    /\ countWarnings' = countWarnings + data[user].unknown
    /\ countUnknownKeys' = countUnknownKeys + data[user].unknown
    /\ Goto(<<Msg("UserSection", user, <<>>)>>
            \o Repeat(Msg("UnknownField", user, <<>>), data[user].unknown),
            "roles")
    /\ UNCHANGED <<env, usertoml, data, user, countUsers,
                   countUsersWithoutCardkeyOrPassword, roleVars, passwdVars,
                   cardkeyVars>>

\* lines 112-123: the loop over the roles of one user; the result is the
\* roles that were found twice (one warning each) and the global list
RECURSIVE RolesLoopPerUser(_, _, _, _)
RolesLoopPerUser(items, userRoles, uniq, dups) ==
    IF items = <<>> THEN [dups |-> dups, uniqueRoles |-> uniq]
    ELSE LET role == Head(items) IN
         RolesLoopPerUser(Tail(items),
                   IF ~Member(role, userRoles)
                   THEN Append(userRoles, role) ELSE userRoles,
                   IF ~Member(role, userRoles) THEN Append(uniq, role) ELSE uniq,
                   IF ~Member(role, userRoles) THEN dups ELSE Append(dups, role))

RECURSIVE RolesLoop(_, _, _, _)
RolesLoop(items, userRoles, uniq, dups) ==
    IF items = <<>> THEN [dups |-> dups, uniqueRoles |-> uniq]
    ELSE LET role == Head(items) IN
         RolesLoop(Tail(items),
                   IF ~Member(role, userRoles)
                   THEN Append(userRoles, role) ELSE userRoles,
                   IF ~Member(role, uniq) THEN Append(uniq, role) ELSE uniq,
                   IF ~Member(role, userRoles) THEN dups ELSE Append(dups, role))

\* roles is None (line 124): TOML has no null, no parsed value is None
IsNone(v) == FALSE

\* for role in roles: a list gives its items, a str its characters
Iterable(v) == v.type \in {"list", "str"}

\* lines 107-127
CheckRoles ==
    /\ pc = "roles"
    /\ LET roles == data[user].roles
           notList == Opt(roles.type # "list", Msg("RolesNotArray", user, <<>>))
           loop == RolesLoop(roles.val, <<>>, uniqueRoles, <<>>)
       IN IF roles.type = "absent"
          THEN /\ countUserWithoutRoles' = countUserWithoutRoles + 1
               /\ Goto(<<>>, "passwd")
               /\ UNCHANGED <<uniqueRoles, countUserWithDuplicateRoles,
                              countWarnings>>
          ELSE IF ~Iterable(roles)
          THEN /\ countWarnings' = countWarnings + Inc(roles.type # "list")
               /\ Crash(notList, "TypeError")
               /\ UNCHANGED roleVars
          ELSE /\ uniqueRoles' = loop.uniqueRoles
               /\ countUserWithDuplicateRoles' =
                      countUserWithDuplicateRoles + Len(loop.dups)
               /\ countWarnings' =
                      countWarnings + Inc(roles.type # "list") + Len(loop.dups)
               /\ countUserWithoutRoles' = countUserWithoutRoles + Inc(IsNone(roles))
               /\ Goto(notList
                       \o Repeat(Msg("DuplicateRole", user, <<>>), Len(loop.dups)),
                       "passwd")
    /\ UNCHANGED <<env, usertoml, data, user, countUsers,
                   countUsersWithoutCardkeyOrPassword, passwdVars, cardkeyVars,
                   countUnknownKeys>>

\* line 141: passwd in passwds
SeenPasswdOnlyStr(p, seen) == p.type = "str" /\ Member(p, seen)
SeenPasswd(p, seen) == Member(p, seen)

\* lines 129-145
CheckPasswd ==
    /\ pc = "passwd"
    /\ LET p == data[user].passwd
           class == IF p.type # "str" THEN "PasswordNotString"
                    ELSE IF ~StartsWith(p.val, Argon2Prefix)
                         THEN "PasswordUnencrypted"
                         ELSE "encrypted"
           dup == SeenPasswd(p, passwds)
           lines == Opt(class # "encrypted", Msg(class, user, <<>>))
                    \o Opt(dup, Msg("PasswordDuplicate", user, <<>>))
       IN IF p.type = "absent"
          THEN /\ Goto(<<>>, "cardkey")
               /\ UNCHANGED <<passwdVars, countWarnings>>
          ELSE /\ passwd' = p
               /\ countPassword' = countPassword + 1
               /\ countPasswordUnencrypted' =
                      countPasswordUnencrypted + Inc(class = "PasswordUnencrypted")
               /\ countPasswordEncrypted' =
                      countPasswordEncrypted + Inc(class = "encrypted")
               /\ countPasswordDuplicates' = countPasswordDuplicates + Inc(dup)
               /\ countWarnings' =
                      countWarnings + Inc(class # "encrypted") + Inc(dup)
               /\ passwds' = Append(passwds, p)
               /\ Goto(lines, "cardkey")
    /\ UNCHANGED <<env, usertoml, data, user, countUsers,
                   countUsersWithoutCardkeyOrPassword, roleVars, cardkeyVars,
                   countUnknownKeys>>

\* line 149 tests type(passwd), the local of the passwd block: the value of
\* the last user that had a passwd, or no value at all
CardkeyTypeTested == passwd

\* lines 151, 155, 159: the countWarnings += 1 of the cardkey block
CardkeyWarningsForgotten(class, dup) == Inc(class = "CardkeyInvalid") + Inc(dup)
CardkeyWarnings(class, dup) == Inc(class # "valid") + Inc(dup)

\* lines 147-163
CheckCardkey ==
    /\ pc = "cardkey"
    /\ LET cardkey == data[user].cardkey
           tested == CardkeyTypeTested
           class == IF tested.type # "str" THEN "CardkeyNotString"
                    ELSE IF ~is_valid_uuid(cardkey) THEN "CardkeyInvalid"
                         ELSE "valid"
           dup == Member(cardkey, cardkeys)
           lines == Opt(class # "valid", Msg(class, user, <<>>))
                    \o Opt(dup, Msg("CardkeyDuplicate", user, <<>>))
       IN IF cardkey.type = "absent"
          THEN /\ Goto(<<>>, "finish")
               /\ UNCHANGED <<cardkeyVars, countWarnings>>
          ELSE IF tested.type = "unbound"
          THEN /\ Crash(<<>>, "UnboundLocalError")
               /\ UNCHANGED <<cardkeyVars, countWarnings>>
          ELSE IF tested.type = "str" /\ UuidRaises(cardkey)
          THEN /\ Crash(<<>>, "AttributeError")
               /\ UNCHANGED <<cardkeyVars, countWarnings>>
          ELSE /\ countCardkeyInvalid' =
                      countCardkeyInvalid + Inc(class = "CardkeyInvalid")
               /\ countCardkeyDuplicates' = countCardkeyDuplicates + Inc(dup)
               /\ countWarnings' = countWarnings + CardkeyWarnings(class, dup)
               /\ cardkeys' = Append(cardkeys, cardkey)
               /\ countCardkey' = countCardkey + 1
               /\ Goto(lines, "finish")
    /\ UNCHANGED <<env, usertoml, data, user, countUsers,
                   countUsersWithoutCardkeyOrPassword, roleVars, passwdVars,
                   countUnknownKeys>>

WithoutEitherCredential(rec) ==
    rec.passwd.type = "absent" \/ rec.cardkey.type = "absent"

\* line 165
WithoutCredentials(rec) ==
    rec.passwd.type = "absent" /\ rec.cardkey.type = "absent"

\* lines 165-169, and the step of the for loop
FinishUser ==
    /\ pc = "finish"
    /\ countUsersWithoutCardkeyOrPassword' =
           countUsersWithoutCardkeyOrPassword + Inc(WithoutCredentials(data[user]))
    /\ countUsers' = countUsers + 1
    /\ IF user < Len(data)
       THEN /\ user' = user + 1
            /\ Goto(<<Msg("UserEnd", user, <<>>)>>, "keys")
       ELSE /\ user' = user
            /\ Goto(<<Msg("UserEnd", user, <<>>)>>, "report")
    /\ UNCHANGED <<env, usertoml, data, roleVars, passwdVars, cardkeyVars,
                   countUnknownKeys, countWarnings>>

\* lines 177-205: the statistics block and the important-information block
ReportLines ==
    <<Msg("HeaderStatistics", 0, <<>>),
      Msg("TotalUsers", 0, <<countUsers>>),
      Msg("TotalUniqueRoles", 0, <<Len(uniqueRoles)>>),
      Msg("TotalPasswords", 0,
          <<countPassword, countPasswordEncrypted, countPasswordUnencrypted,
            countPasswordDuplicates>>),
      Msg("TotalCardkeys", 0, <<countCardkey, countCardkeyDuplicates>>),
      Msg("HeaderImportant", 0, <<>>)>>
    \o Opt(countUnknownKeys > 0, Msg("InfoUnknownKeys", 0, <<countUnknownKeys>>))
    \o Opt(countUserWithoutRoles > 0,
           Msg("InfoUsersWithoutRoles", 0, <<countUserWithoutRoles>>))
    \o Opt(countUserWithDuplicateRoles > 0,
           Msg("InfoUsersWithDuplicateRoles", 0, <<countUserWithDuplicateRoles>>))
    \o Opt(Len(uniqueRoles) = 0, Msg("InfoNoRoles", 0, <<>>))
    \o Opt(countCardkeyInvalid > 0,
           Msg("InfoInvalidCardkeys", 0, <<countCardkeyInvalid>>))
    \o Opt(countUsersWithoutCardkeyOrPassword > 0,
           Msg("InfoWithoutCredentials", 0, <<countUsersWithoutCardkeyOrPassword>>))
    \o Opt(countWarnings > 0, Msg("InfoWarnings", 0, <<countWarnings>>))

ReportWithoutUserCheck ==
    /\ pc = "report"
    /\ out' = out \o ReportLines
    /\ pc' = "done"
    /\ exitStatus' = <<0>>
    /\ exc' = exc
    /\ UNCHANGED <<env, usertoml, data, user, counters>>

\* lines 171-205; main() returns and the interpreter exits with status 0
Report ==
    /\ pc = "report"
    /\ IF countUsers = 0
       THEN Exit1(<<Msg("ErrNoUsers", 0, <<>>)>>)
       ELSE /\ out' = out \o ReportLines
            /\ pc' = "done"
            /\ exitStatus' = <<0>>
            /\ exc' = exc
    /\ UNCHANGED <<env, usertoml, data, user, counters>>

Next ==
    \/ ResolvePath
    \/ StatFile
    \/ ParseFile
    \/ CheckKeys
    \/ CheckRoles
    \/ CheckPasswd
    \/ CheckCardkey
    \/ FinishUser
    \/ Report

Spec == Init /\ [][Next]_vars

\* ---------------------------------------------------------------- properties
Terminated == pc \in {"done", "exited", "crashed"}

Range(s) == {s[i] : i \in DOMAIN s}

Printed(kind) == \E i \in DOMAIN out : out[i].kind = kind

NumKind(kind) == Cardinality({i \in DOMAIN out : out[i].kind = kind})

\* the users named by the printed lines of one kind, in the order printed
RECURSIVE UsersOfIn(_, _)
UsersOfIn(kind, s) ==
    IF s = <<>> THEN <<>>
    ELSE (IF Head(s).kind = kind THEN <<Head(s).user>> ELSE <<>>)
         \o UsersOfIn(kind, Tail(s))

UsersOf(kind) == UsersOfIn(kind, out)

ParseDiagnostics ==
    {"ErrDuplicateUser", "ErrKeyWithoutValue", "ErrBadMapping", "ErrVerbatim"}

NoReport == ~Printed("HeaderStatistics") /\ ~Printed("HeaderImportant")

\* the records of the file of the run (the parser's result, also before the
\* run has parsed it)
Records == file.users

\* C1: with --db <path> the file at <path> is the one whose size is checked
\* and that is parsed; without --db it is the default path if that exists,
\* and otherwise the run ends with an error, status 1, nothing validated.
C1_DbPathResolution ==
    Terminated =>
        IF argDb # NoArg
        THEN usertoml = argDb /\ Printed("DbSize")
        ELSE IF defaultExists
             THEN usertoml = default_usertoml /\ Printed("DbSize")
             ELSE /\ exitStatus = <<1>>
                  /\ Printed("ErrNoFile")
                  /\ ~Printed("DbSize")
                  /\ ~Printed("UserSection")

\* C2: a database that was parsed and has at least one user is visited
\* record by record, each once and in document order, the statistics are
\* printed and the exit status is 0, whatever is wrong with the records.
C2_WarningsNeverFatal ==
    (Terminated /\ data # <<>>) =>
        /\ exitStatus = <<0>>
        /\ Printed("HeaderStatistics")
        /\ UsersOf("UserSection") = [i \in 1..Len(data) |-> i]

\* C3: a zero-byte file, a file the parser rejects and a parsed database
\* without users each end the run with status 1 and a diagnostic and without
\* statistics or important-information block; the diagnostic is the message
\* of that abort (for a rejected file one of the four parse messages), or the
\* traceback of the run that never reached the file; the zero-user message
\* is printed only after a successful parse and never next to a parse message.
C3_FatalAborts ==
    /\ (Terminated /\ file.kind = "zero") =>
           /\ exitStatus = <<1>> /\ NoReport
           /\ IF exc = "" THEN Printed("ErrZeroSize") ELSE usertoml = UnboundPath
    /\ (Terminated /\ file.kind = "bad") =>
           /\ exitStatus = <<1>> /\ NoReport
           /\ IF exc = ""
              THEN /\ Cardinality({k \in ParseDiagnostics : Printed(k)}) = 1
                   /\ ~Printed("ErrNoUsers")
              ELSE usertoml = UnboundPath
    /\ (Terminated /\ file.kind = "toml" /\ Records = <<>>) =>
           /\ exitStatus = <<1>> /\ NoReport
           /\ IF exc = ""
              THEN /\ Printed("ErrNoUsers")
                   /\ \A k \in ParseDiagnostics : ~Printed(k)
              ELSE usertoml = UnboundPath
    /\ Printed("ErrNoUsers") =>
           /\ file.kind = "toml" /\ pc = "exited"
           /\ \A k \in ParseDiagnostics \cup {"ErrZeroSize"} : ~Printed(k)

C3_Witness ==
    /\ pc = "exited" /\ exitStatus = <<1>>
    /\ file.kind = "toml" /\ Records = <<>>
    /\ Printed("ErrNoUsers") /\ Printed("DbSize")

\* C4: the cardkey block of a user that has a cardkey raises the cardkey
\* counter by one, and it emits CardkeyInvalid and raises the invalid counter
\* by one exactly when the cardkey is not valid UUID text, whatever passwd
\* this user or an earlier one has.
C4_CardkeyOwnValue ==
    [][(pc = "cardkey" /\ data[user].cardkey.type # "absent") =>
          /\ countCardkey' = countCardkey + 1
          /\ IF data[user].cardkey.type = "str" /\ UuidParses(data[user].cardkey.val)
             THEN /\ countCardkeyInvalid' = countCardkeyInvalid
                  /\ \A i \in (Len(out) + 1)..Len(out') :
                        out'[i].kind # "CardkeyInvalid"
             ELSE /\ countCardkeyInvalid' = countCardkeyInvalid + 1
                  /\ \E i \in (Len(out) + 1)..Len(out') :
                        out'[i] = Msg("CardkeyInvalid", user, <<>>)]_vars

\* C5: after a completed pass the users-without-roles counter is the number
\* of users without a roles key plus the number of users with roles = [].
C5_UsersWithoutRoles ==
    pc = "done" =>
        countUserWithoutRoles =
            Cardinality({i \in DOMAIN data :
                            data[i].roles.type = "absent" \/ data[i].roles = List(<<>>)})

HasRepeatedItem(s) == \E i, j \in DOMAIN s : i < j /\ s[i] = s[j]

RolesAreArrays ==
    \A i \in DOMAIN Records : Records[i].roles.type \in {"list", "absent"}

\* C6: after a completed pass over arrays of roles the users-with-duplicate-
\* roles counter is the number of users whose array repeats some role.
C6_UsersWithDuplicateRoles ==
    (pc = "done" /\ RolesAreArrays) =>
        countUserWithDuplicateRoles =
            Cardinality({i \in DOMAIN data : HasRepeatedItem(data[i].roles.val)})

\* C7: at every point the warning total is the number of warnings printed so
\* far, every counter of one kind of warning is the number of warnings of
\* that kind printed so far, and the report prints that total (when not 0).
C7_WarningTotal ==
    /\ countWarnings = Cardinality({i \in DOMAIN out : out[i].kind \in WarningKinds})
    /\ countUnknownKeys = NumKind("UnknownField")
    /\ countUserWithDuplicateRoles = NumKind("DuplicateRole")
    /\ countPasswordUnencrypted = NumKind("PasswordUnencrypted")
    /\ countPasswordDuplicates = NumKind("PasswordDuplicate")
    /\ countCardkeyInvalid = NumKind("CardkeyInvalid")
    /\ countCardkeyDuplicates = NumKind("CardkeyDuplicate")
    /\ pc = "done" =>
           /\ countWarnings > 0 =>
                  \E i \in DOMAIN out :
                      out[i] = Msg("InfoWarnings", 0,
                                   <<Cardinality({j \in DOMAIN out :
                                                     out[j].kind \in WarningKinds})>>)
           /\ countWarnings = 0 => ~Printed("InfoWarnings")

C7_Witness ==
    /\ pc = "done"
    /\ Printed("PasswordNotString")
    /\ Printed("CardkeyNotString")
    /\ Printed("PasswordDuplicate")
    /\ Printed("CardkeyDuplicate")
    /\ countWarnings >= 4

\* the users that have a passwd, in document order
RECURSIVE PasswdUsersUpTo(_)
PasswdUsersUpTo(n) ==
    IF n = 0 THEN <<>>
    ELSE PasswdUsersUpTo(n - 1)
         \o (IF Records[n].passwd.type # "absent" THEN <<n>> ELSE <<>>)

PasswdUsers == PasswdUsersUpTo(Len(Records))

Occurrences(v, s) == Cardinality({i \in DOMAIN s : s[i] = v})

DuplicateWarningsFor(v) ==
    Cardinality({i \in DOMAIN out :
                    out[i].kind = "PasswordDuplicate" /\ Records[out[i].user].passwd = v})

\* C8 as stated: after a completed pass a passwd value that K >= 2 users
\* carry got K-1 PasswordDuplicate warnings, every passwd value is in
\* passwds, and passwds holds such a value once.
C8_SeenOnce ==
    pc = "done" =>
        \A u \in Range(PasswdUsers) :
            LET v == data[u].passwd
                K == Cardinality({w \in Range(PasswdUsers) : data[w].passwd = v})
            IN /\ Member(v, passwds)
               /\ K >= 2 => /\ DuplicateWarningsFor(v) = K - 1
                            /\ Occurrences(v, passwds) = 1

\* C8 as amended: passwds is the list of the passwd values of the users whose
\* passwd block has run, in document order, one entry per user; the users
\* warned with PasswordDuplicate are, in document order, those of them whose
\* value an earlier user carries; so a value that K of them carry is K times
\* in passwds and got K-1 warnings, and the duplicate counter is the sum.
\* After a completed pass these are all the users that have a passwd.
C8_SeenEveryTime ==
    LET n == Len(passwds)
        seen == SubSeq(PasswdUsers, 1, n)
        repeats(i) ==
            \E j \in 1..(i - 1) : Records[seen[j]].passwd = Records[seen[i]].passwd
        warned == {seen[i] : i \in {k \in 1..n : repeats(k)}}
    IN /\ n <= Len(PasswdUsers)
       /\ passwds = [i \in 1..n |-> Records[seen[i]].passwd]
       /\ Range(UsersOf("PasswordDuplicate")) = warned
       /\ Len(UsersOf("PasswordDuplicate")) = Cardinality(warned)
       /\ \A v \in Range(passwds) :
              DuplicateWarningsFor(v) + 1 = Occurrences(v, passwds)
       /\ countPasswordDuplicates + Cardinality(Range(passwds)) = n
       /\ countPasswordDuplicates = NumKind("PasswordDuplicate")
       /\ pc = "done" => n = Len(PasswdUsers)

C8_Witness ==
    /\ pc = "done"
    /\ Len(passwds) = MaxUsers
    /\ \A i \in DOMAIN passwds : passwds[i] = IntVal
    /\ countPasswordDuplicates = MaxUsers - 1

AllRoles == UNION {Range(Records[i].roles.val) : i \in DOMAIN Records}

\* C9: the global list of roles never holds a role twice and holds only
\* roles of the database; after a completed pass over arrays of roles it
\* holds every role of every user, and the reported total of distinct roles
\* is the number of elements of the union of the users' arrays.
C9_DistinctRoles ==
    /\ ~HasRepeatedItem(uniqueRoles)
    /\ Range(uniqueRoles) \subseteq AllRoles
    /\ (pc = "done" /\ RolesAreArrays) =>
           /\ Range(uniqueRoles) = AllRoles
           /\ \E i \in DOMAIN out :
                  out[i] = Msg("TotalUniqueRoles", 0, <<Cardinality(AllRoles)>>)

C9_Witness ==
    /\ pc = "done" /\ RolesAreArrays
    /\ Len(data) >= 2
    /\ HasRepeatedItem(data[1].roles.val)
    /\ Range(data[1].roles.val) \cap Range(data[2].roles.val) = {}
    /\ Len(uniqueRoles) = 2

\* the records whose visit is complete
Completed == NumKind("UserEnd")

\* C10: after each record the counter of users without both credentials is
\* the number of visited records with neither passwd nor cardkey, and with
\* the number of visited records that have one of them it adds up to the
\* user count; after a completed pass the user count, also as reported, is
\* the number of records of the database.
C10_CredentialPartition ==
    LET without == {i \in 1..Completed : Records[i].passwd.type = "absent"
                                          /\ Records[i].cardkey.type = "absent"}
        with == {i \in 1..Completed : Records[i].passwd.type # "absent"
                                       \/ Records[i].cardkey.type # "absent"}
    IN /\ Completed <= Len(Records)
       /\ countUsersWithoutCardkeyOrPassword = Cardinality(without)
       /\ Cardinality(with) + countUsersWithoutCardkeyOrPassword = countUsers
       /\ pc = "done" =>
              /\ countUsers = Len(data)
              /\ \E i \in DOMAIN out : out[i] = Msg("TotalUsers", 0, <<Len(data)>>)

C10_Witness ==
    /\ pc = "done"
    /\ Len(data) = 2
    /\ countUsersWithoutCardkeyOrPassword = 1
    /\ countPassword + countCardkey >= 1

====
